---- MODULE Spec2Model ----
(***************************************************************************)
(* A model of the EverhourApiClient of levma/everhour-api-client:          *)
(* createUrl (path templating, query string, URL resolution) and           *)
(* apiRequest (request options, fetch, status dispatch, body decoding).    *)
(* JavaScript strings are TLA+ strings; the built-ins the client calls     *)
(* (String.prototype.match/replace, encodeURIComponent, URLSearchParams,   *)
(* URL, JSON.stringify, Response.json) are operators that compute what     *)
(* the built-in computes on the characters the model uses.                 *)
(***************************************************************************)
EXTENDS Integers, Sequences, FiniteSets, TLC

VARIABLES
    client,    \* the EverhourApiClient instance (props, headers), or NoClient
    calls,     \* per call slot: the operation in progress (createUrl then apiRequest)
    urlIn,     \* pure-function harness: the arguments of a createUrl call
    urlOut     \* pure-function harness: what that createUrl call produced

vars == <<client, calls, urlIn, urlOut>>

(***************************************************************************)
(* Bounds of the model.                                                    *)
(***************************************************************************)
MaxCalls == 1         \* call slots that can be in flight at once
MaxPathEntries == 3   \* entries of a pathParams mapping
MaxQueryEntries == 2  \* entries of a searchParams mapping

(***************************************************************************)
(* Strings.                                                                *)
(***************************************************************************)
Ch(s, i) == SubSeq(s, i, i)

Letters ==
    {"a","b","c","d","e","f","g","h","i","j","k","l","m","n","o","p","q","r",
     "s","t","u","v","w","x","y","z","A","B","C","D","E","F","G","H","I","J",
     "K","L","M","N","O","P","Q","R","S","T","U","V","W","X","Y","Z"}

Digits == {"0","1","2","3","4","5","6","7","8","9"}

AlphaNum == Letters \cup Digits

\* True when pat occurs in s starting at position i.
MatchAt(s, pat, i) ==
    /\ i >= 1
    /\ i + Len(pat) - 1 <= Len(s)
    /\ SubSeq(s, i, i + Len(pat) - 1) = pat

RECURSIVE IndexFrom(_, _, _)
\* String.prototype.indexOf(pat, i): first position >= i where pat occurs, 0 when none.
IndexFrom(s, pat, i) ==
    IF i + Len(pat) - 1 > Len(s) THEN 0
    ELSE IF MatchAt(s, pat, i) THEN i
    ELSE IndexFrom(s, pat, i + 1)

IndexOf(s, pat) == IndexFrom(s, pat, 1)

Contains(s, pat) == IndexOf(s, pat) > 0

\* String.prototype.replace(pat, repl) with a string pattern: only the first
\* occurrence is replaced.  (The replacement never holds a "$": it comes out
\* of encodeURIComponent, which escapes it.)
StringReplace(s, pat, repl) ==
    LET i == IndexOf(s, pat)
    IN  IF i = 0 THEN s
        ELSE SubSeq(s, 1, i - 1) \o repl \o SubSeq(s, i + Len(pat), Len(s))

RECURSIVE Join(_, _)
\* Array.prototype.join(sep) on a sequence of strings.
Join(parts, sep) ==
    IF Len(parts) = 0 THEN ""
    ELSE IF Len(parts) = 1 THEN parts[1]
    ELSE parts[1] \o sep \o Join(Tail(parts), sep)

DigitVal(c) ==
    CASE c = "0" -> 0 [] c = "1" -> 1 [] c = "2" -> 2 [] c = "3" -> 3
      [] c = "4" -> 4 [] c = "5" -> 5 [] c = "6" -> 6 [] c = "7" -> 7
      [] c = "8" -> 8 [] c = "9" -> 9

RECURSIVE ParseNatFrom(_, _, _)
ParseNatFrom(s, i, acc) ==
    IF i > Len(s) THEN acc
    ELSE ParseNatFrom(s, i + 1, acc * 10 + DigitVal(Ch(s, i)))

AllDigits(s) == Len(s) > 0 /\ \A i \in 1..Len(s) : Ch(s, i) \in Digits

ParseNat(s) == ParseNatFrom(s, 1, 0)

(***************************************************************************)
(* JavaScript values.  Every value is a record of the same shape: k is the *)
(* kind, s the characters of a string, n the integer of a number or the    *)
(* truth value of a boolean, e the entries of an object in own-property    *)
(* order.                                                                  *)
(***************************************************************************)
Str(s) == [k |-> "string", s |-> s, n |-> 0, e |-> <<>>]
Num(n) == [k |-> "number", s |-> "", n |-> n, e |-> <<>>]
Bool(b) == [k |-> "boolean", s |-> "", n |-> IF b THEN 1 ELSE 0, e |-> <<>>]
Undefined == [k |-> "undefined", s |-> "", n |-> 0, e |-> <<>>]
Null == [k |-> "null", s |-> "", n |-> 0, e |-> <<>>]
Obj(entries) == [k |-> "object", s |-> "", n |-> 0, e |-> entries]

\* The typeof operator.
TypeOf(v) == IF v.k = "null" THEN "object" ELSE v.k

\* String(value), the conversion encodeURIComponent and template literals apply.
ToStr(v) ==
    CASE v.k = "string" -> v.s
      [] v.k = "number" -> ToString(v.n)
      [] v.k = "boolean" -> (IF v.n = 1 THEN "true" ELSE "false")
      [] v.k = "undefined" -> "undefined"
      [] v.k = "null" -> "null"
      [] v.k = "object" -> "[object Object]"

(***************************************************************************)
(* A mapping (a plain object used as a record) is the sequence of its      *)
(* entries [key, val] in insertion order, keys distinct.                   *)
(***************************************************************************)
HasKey(m, key) == \E i \in 1..Len(m) : m[i].key = key

\* m[key]: the property read; undefined for an absent key.
Get(m, key) ==
    IF HasKey(m, key)
    THEN m[CHOOSE i \in 1..Len(m) : m[i].key = key].val
    ELSE Undefined

\* An array index key: a canonical decimal integer.
IsIndexKey(key) == AllDigits(key) /\ (Len(key) = 1 \/ Ch(key, 1) # "0")

RECURSIVE InsertByIndex(_, _)
InsertByIndex(sorted, ent) ==
    IF Len(sorted) = 0 THEN <<ent>>
    ELSE IF ParseNat(ent.key) < ParseNat(Head(sorted).key)
         THEN <<ent>> \o sorted
         ELSE <<Head(sorted)>> \o InsertByIndex(Tail(sorted), ent)

RECURSIVE SortIndexEntries(_)
SortIndexEntries(m) ==
    IF Len(m) = 0 THEN <<>>
    ELSE InsertByIndex(SortIndexEntries(Tail(m)), Head(m))

\* Object.entries(m): own enumerable properties, integer keys first in
\* ascending order, then the other keys in insertion order.
ObjectEntries(m) ==
    SortIndexEntries(SelectSeq(m, LAMBDA ent : IsIndexKey(ent.key)))
        \o SelectSeq(m, LAMBDA ent : ~IsIndexKey(ent.key))

(***************************************************************************)
(* Percent-encoding.                                                       *)
(***************************************************************************)
\* The %XX escape of an ASCII character that is not a letter or digit.
PctCode(c) ==
    CASE c = " " -> "%20" [] c = "!" -> "%21"
      [] c = "#" -> "%23" [] c = "$" -> "%24" [] c = "%" -> "%25"
      [] c = "&" -> "%26" [] c = "'" -> "%27" [] c = "(" -> "%28"
      [] c = ")" -> "%29" [] c = "*" -> "%2A" [] c = "+" -> "%2B"
      [] c = "," -> "%2C" [] c = "-" -> "%2D" [] c = "." -> "%2E"
      [] c = "/" -> "%2F" [] c = ":" -> "%3A" [] c = ";" -> "%3B"
      [] c = "<" -> "%3C" [] c = "=" -> "%3D" [] c = ">" -> "%3E"
      [] c = "?" -> "%3F" [] c = "@" -> "%40" [] c = "[" -> "%5B"
      [] c = "]" -> "%5D" [] c = "^" -> "%5E"
      [] c = "_" -> "%5F" [] c = "{" -> "%7B"
      [] c = "|" -> "%7C" [] c = "}" -> "%7D" [] c = "~" -> "%7E"

\* The character a %XX escape stands for (the escape itself when it is not in the table).
PctChars ==
    {" ","!","#","$","%","&","'","(",")","*","+",",","-",".","/",":",";",
     "<","=",">","?","@","[","]","^","_","{","|","}","~"}

PctDecode1(esc) ==
    IF \E c \in PctChars : PctCode(c) = esc
    THEN CHOOSE c \in PctChars : PctCode(c) = esc
    ELSE esc

\* encodeURIComponent leaves A-Z a-z 0-9 - _ . ! ~ * ' ( ) and escapes the rest.
UriUnreserved == AlphaNum \cup {"-", "_", ".", "!", "~", "*", "'", "(", ")"}

EncodeUriChar(c) == IF c \in UriUnreserved THEN c ELSE PctCode(c)

RECURSIVE EncodeUriFrom(_, _)
EncodeUriFrom(s, i) ==
    IF i > Len(s) THEN "" ELSE EncodeUriChar(Ch(s, i)) \o EncodeUriFrom(s, i + 1)

EncodeURIComponent(v) == EncodeUriFrom(ToStr(v), 1)

RECURSIVE DecodeFrom(_, _)
\* decodeURIComponent: every %XX escape replaced by its character.
DecodeFrom(s, i) ==
    IF i > Len(s) THEN ""
    ELSE IF Ch(s, i) = "%" /\ i + 2 <= Len(s)
         THEN PctDecode1(SubSeq(s, i, i + 2)) \o DecodeFrom(s, i + 3)
         ELSE Ch(s, i) \o DecodeFrom(s, i + 1)

DecodeURIComponent(s) == DecodeFrom(s, 1)

\* The application/x-www-form-urlencoded serializer of URLSearchParams:
\* letters, digits and * - . _ are kept, a space becomes +, the rest is escaped.
FormSafe == AlphaNum \cup {"*", "-", ".", "_"}

FormEncodeChar(c) ==
    IF c \in FormSafe THEN c ELSE IF c = " " THEN "+" ELSE PctCode(c)

RECURSIVE FormEncodeFrom(_, _)
FormEncodeFrom(s, i) ==
    IF i > Len(s) THEN "" ELSE FormEncodeChar(Ch(s, i)) \o FormEncodeFrom(s, i + 1)

FormEncode(s) == FormEncodeFrom(s, 1)

(***************************************************************************)
(* new URL(input, base) for a relative input and the https base of the     *)
(* client: fragment and query are split off, the path is cut into          *)
(* segments, dot segments are resolved, and the characters of the path and *)
(* query percent-encode sets are escaped.                                  *)
(***************************************************************************)
RECURSIVE SplitFrom(_, _, _, _)
\* String.prototype.split(sep) for a one-character separator.
SplitFrom(s, sep, i, start) ==
    IF i > Len(s) THEN <<SubSeq(s, start, Len(s))>>
    ELSE IF Ch(s, i) = sep
         THEN <<SubSeq(s, start, i - 1)>> \o SplitFrom(s, sep, i + 1, i + 1)
         ELSE SplitFrom(s, sep, i + 1, start)

Split(s, sep) == SplitFrom(s, sep, 1, 1)

PathEncodeSet == {" ", "#", "<", ">", "?", "{", "}"}

QueryEncodeSet == {" ", "#", "<", ">", "'"}

FragmentEncodeSet == {" ", "<", ">"}

RECURSIVE PercentEncodeFrom(_, _, _)
\* The URL parser's percent-encoding of s from position i: the characters of
\* the given percent-encode set are escaped, the others kept.
PercentEncodeFrom(s, set, i) ==
    IF i > Len(s) THEN ""
    ELSE (IF Ch(s, i) \in set THEN PctCode(Ch(s, i)) ELSE Ch(s, i))
             \o PercentEncodeFrom(s, set, i + 1)

PercentEncode(s, set) == PercentEncodeFrom(s, set, 1)

IsSingleDot(seg) == seg \in {".", "%2e", "%2E"}

IsDoubleDot(seg) ==
    seg \in {"..", ".%2e", ".%2E", "%2e.", "%2E.", "%2e%2e", "%2E%2E", "%2e%2E", "%2E%2e"}

RECURSIVE PathSegments(_, _, _)
\* The path state of the URL parser over the raw segments from position i:
\* ".." drops the last segment kept so far, "." is dropped, and either one
\* in last position leaves an empty segment.
PathSegments(raw, i, kept) ==
    IF i > Len(raw) THEN kept
    ELSE LET seg == raw[i]
             last == (i = Len(raw))
         IN  IF IsDoubleDot(seg)
             THEN PathSegments(raw, i + 1,
                      (IF Len(kept) > 0 THEN SubSeq(kept, 1, Len(kept) - 1) ELSE kept)
                          \o (IF last THEN <<"">> ELSE <<>>))
             ELSE IF IsSingleDot(seg)
             THEN PathSegments(raw, i + 1, kept \o (IF last THEN <<"">> ELSE <<>>))
             ELSE PathSegments(raw, i + 1, kept \o <<PercentEncode(seg, PathEncodeSet)>>)

SchemeChars == AlphaNum \cup {"+", "-", "."}

\* The scheme state: a letter, then scheme characters, then ":".
HasScheme(input) ==
    LET c == IndexOf(input, ":")
    IN  /\ c > 1
        /\ Ch(input, 1) \in Letters
        /\ \A i \in 1..(c - 1) : Ch(input, i) \in SchemeChars

NoUrl == [origin |-> "", pathname |-> "", search |-> "", hash |-> "", href |-> ""]

MakeUrl(origin, segs, hasQuery, query, hasHash, fragment) ==
    LET pathname == "/" \o Join(segs, "/")
        q == PercentEncode(query, QueryEncodeSet)
        f == PercentEncode(fragment, FragmentEncodeSet)
    IN  [origin |-> origin,
         pathname |-> pathname,
         search |-> IF q = "" THEN "" ELSE "?" \o q,
         hash |-> IF f = "" THEN "" ELSE "#" \o f,
         href |-> origin \o pathname
                    \o (IF hasQuery THEN "?" \o q ELSE "")
                    \o (IF hasHash THEN "#" \o f ELSE "")]

\* new URL(input, origin of the base): [ok, url].  The base has the path "/"
\* and no query.  ok is FALSE where the constructor throws a TypeError.
NewURL(input, baseOrigin) ==
    LET h == IndexOf(input, "#")
        hasHash == h > 0
        fragment == IF hasHash THEN SubSeq(input, h + 1, Len(input)) ELSE ""
        noHash == IF hasHash THEN SubSeq(input, 1, h - 1) ELSE input
        q == IndexOf(noHash, "?")
        hasQuery == q > 0
        query == IF hasQuery THEN SubSeq(noHash, q + 1, Len(noHash)) ELSE ""
        path == IF hasQuery THEN SubSeq(noHash, 1, q - 1) ELSE noHash
    IN  IF HasScheme(input)
        THEN \* an absolute URL: the base is not used
             [ok |-> TRUE,
              url |-> [origin |-> SubSeq(input, 1, IndexOf(input, ":")),
                       pathname |-> SubSeq(path, IndexOf(input, ":") + 1, Len(path)),
                       search |-> IF query = "" THEN "" ELSE "?" \o query,
                       hash |-> IF fragment = "" THEN "" ELSE "#" \o fragment,
                       href |-> input]]
        ELSE IF MatchAt(path, "//", 1)
        THEN \* scheme-relative: the authority comes from the input
             LET rest == SubSeq(path, 3, Len(path))
                 sl == IndexOf(rest, "/")
                 host == IF sl > 0 THEN SubSeq(rest, 1, sl - 1) ELSE rest
                 tail == IF sl > 0 THEN SubSeq(rest, sl + 1, Len(rest)) ELSE ""
             IN  IF host = "" THEN [ok |-> FALSE, url |-> NoUrl]
                 ELSE [ok |-> TRUE,
                       url |-> MakeUrl("https://" \o host,
                                       PathSegments(Split(tail, "/"), 1, <<>>),
                                       hasQuery, query, hasHash, fragment)]
        ELSE IF MatchAt(path, "/", 1)
        THEN [ok |-> TRUE,
              url |-> MakeUrl(baseOrigin,
                              PathSegments(Split(SubSeq(path, 2, Len(path)), "/"), 1, <<>>),
                              hasQuery, query, hasHash, fragment)]
        ELSE \* relative to the base path "/"
             [ok |-> TRUE,
              url |-> MakeUrl(baseOrigin, PathSegments(Split(path, "/"), 1, <<>>),
                              hasQuery, query, hasHash, fragment)]

(***************************************************************************)
(* URLSearchParams.                                                        *)
(***************************************************************************)
\* params.toString(): name=value pairs, both form-encoded, joined by "&".
RECURSIVE SearchParamsToString(_)
SearchParamsToString(params) ==
    IF Len(params) = 0 THEN ""
    ELSE FormEncode(params[1].name) \o "=" \o FormEncode(params[1].value)
            \o (IF Len(params) > 1 THEN "&" ELSE "")
            \o SearchParamsToString(Tail(params))

(***************************************************************************)
(* EverhourApiClient.createUrl.                                            *)
(***************************************************************************)
RECURSIVE RunEnd(_, _)
\* The end of the longest run of characters other than "}" that starts at i
\* (i - 1 when the run is empty).
RunEnd(s, i) ==
    IF i > Len(s) \/ Ch(s, i) = "}" THEN i - 1 ELSE RunEnd(s, i + 1)

RECURSIVE MatchAllFrom(_, _)
\* path.match(/(?<=\{)[^}]+(?=})/g) scanning from position i: a match starts
\* right after a "{", is the longest non-empty run without "}", and must be
\* followed by "}"; the scan goes on after the match.
MatchAllFrom(path, i) ==
    IF i > Len(path) THEN <<>>
    ELSE LET j == RunEnd(path, i)
         IN  IF /\ i > 1
                /\ Ch(path, i - 1) = "{"
                /\ j >= i
                /\ j < Len(path)
             THEN <<SubSeq(path, i, j)>> \o MatchAllFrom(path, j + 1)
             ELSE MatchAllFrom(path, i + 1)

\* The placeholder names of a template, in template order (empty when
\* match returns null).
ExtractParams(path) == MatchAllFrom(path, 1)

RECURSIVE FirstMatchEnd(_, _)
\* The end index of the first match at or after position i (0 when there is
\* none): what one exec of the pattern leaves as its match position.
FirstMatchEnd(path, i) ==
    IF i > Len(path) THEN 0
    ELSE LET j == RunEnd(path, i)
         IN  IF i > 1 /\ Ch(path, i - 1) = "{" /\ j >= i /\ j < Len(path)
             THEN j
             ELSE FirstMatchEnd(path, i + 1)

\* A scan that resumes at the match position the pattern kept and stops at
\* the first match, as one exec of a global pattern does.
MatchResuming(path, lastIndex) ==
    LET e == FirstMatchEnd(path, lastIndex + 1)
    IN  [matches |-> IF e = 0 THEN <<>>
                     ELSE <<MatchAllFrom(path, lastIndex + 1)[1]>>,
         lastIndex |-> e]

\* path.match(this.props.extractParams) with the global flag: the match
\* position of the pattern is set to 0 before the scan, whatever it was, and
\* the failed exec that ends the scan sets it to 0 again.
MatchGlobal(path, lastIndex) ==
    [matches |-> ExtractParams(path), lastIndex |-> 0]

\* A type test that only asks for a defined value.
ParamDefined(pathParams, param) == Get(pathParams, param) # Undefined

\* The type test of createUrl on one placeholder.
ParamOk(pathParams, param) ==
    TypeOf(Get(pathParams, param)) \in {"string", "number"}

\* A message that leaves the type out.
RequiredErrorMessageNoType(pathParams, param) ==
    "Required parameter " \o param \o " was undefined or had the wrong type."

\* The message of the RequiredError createUrl throws for a placeholder.
RequiredErrorMessage(pathParams, param) ==
    "Required parameter " \o param \o " was undefined or had the wrong type: "
        \o TypeOf(Get(pathParams, param)) \o "."

RECURSIVE SubstituteAllRaw(_, _)
\* A substitution that puts the values in as they are, unencoded.
SubstituteAllRaw(path, entries) ==
    IF Len(entries) = 0 THEN path
    ELSE SubstituteAllRaw(
             StringReplace(path, "{" \o Head(entries).key \o "}",
                           ToStr(Head(entries).val)),
             Tail(entries))

RECURSIVE SubstituteAll(_, _)
\* Object.entries(pathParams).forEach: one replace per entry, in entry order.
SubstituteAll(path, entries) ==
    IF Len(entries) = 0 THEN path
    ELSE SubstituteAll(
             StringReplace(path, "{" \o Head(entries).key \o "}",
                           EncodeURIComponent(Head(entries).val)),
             Tail(entries))

RECURSIVE AppendDefined(_)
\* Object.entries(searchParams).forEach: append every defined value, encoded.
AppendDefined(entries) ==
    IF Len(entries) = 0 THEN <<>>
    ELSE (IF Head(entries).val # Undefined
          THEN <<[name |-> Head(entries).key,
                  value |-> EncodeURIComponent(Head(entries).val)]>>
          ELSE <<>>) \o AppendDefined(Tail(entries))

Result(kind, url, field, message) ==
    [kind |-> kind, url |-> url, field |-> field, message |-> message]

\* The path createUrl hands to the URL constructor (after substitution and
\* with the query string appended).
RelativePath(path, pathParams, searchParams) ==
    LET substituted == SubstituteAll(path, ObjectEntries(pathParams))
        params == AppendDefined(ObjectEntries(searchParams))
    IN  IF Len(params) > 0
        THEN substituted \o "?" \o SearchParamsToString(params)
        ELSE substituted

\* A check that also turns down a pathParams entry no placeholder asks for.
InvalidOrUnknownParams(requiredParams, pathParams) ==
    IF \E i \in 1..Len(pathParams) :
           \A j \in 1..Len(requiredParams) : pathParams[i].key # requiredParams[j]
    THEN 1..Len(requiredParams)
    ELSE {i \in 1..Len(requiredParams) : ~ParamOk(pathParams, requiredParams[i])}

\* The positions, in the list of matches, of the placeholders the loop over
\* requiredParams throws for; pathParams is only read at the names matched.
InvalidParams(requiredParams, pathParams) ==
    {i \in 1..Len(requiredParams) : ~ParamOk(pathParams, requiredParams[i])}

\* createUrl(path, pathParams, searchParams) on a client with the given props.
createUrl(props, path, pathParams, searchParams) ==
    LET requiredParams == MatchGlobal(path, props.lastIndex).matches
        bad == InvalidParams(requiredParams, pathParams)
    IN  IF bad # {}
        THEN LET param == requiredParams[CHOOSE i \in bad : \A j \in bad : i <= j]
             IN  Result("RequiredError", NoUrl, param,
                        RequiredErrorMessage(pathParams, param))
        ELSE LET parsed == NewURL(RelativePath(path, pathParams, searchParams),
                                  props.basePath)
             IN  IF parsed.ok THEN Result("url", parsed.url, "", "")
                 ELSE Result("TypeError", NoUrl, "", "Invalid URL")

\* props after a createUrl call: the call writes nothing but the match
\* position of the pattern props refers to (the freeze of props is shallow).
PropsAfterCreateUrl(props, path) ==
    [props EXCEPT !.lastIndex = MatchGlobal(path, props.lastIndex).lastIndex]

(***************************************************************************)
(* JSON.  JSON.stringify as apiRequest applies it to a payload, and        *)
(* JSON.parse as Response.json applies it to the body text (objects,       *)
(* strings without escapes, integers, true, false, null; no white space).  *)
(***************************************************************************)
RECURSIVE JsonStringify(_)
RECURSIVE StringifyMembers(_, _)
\* The members of an object: an entry whose value is undefined is left out.
StringifyMembers(entries, first) ==
    IF Len(entries) = 0 THEN ""
    ELSE IF Head(entries).val = Undefined
         THEN StringifyMembers(Tail(entries), first)
         ELSE (IF first THEN "" ELSE ",")
                 \o "\"" \o Head(entries).key \o "\":"
                 \o JsonStringify(Head(entries).val)
                 \o StringifyMembers(Tail(entries), FALSE)

JsonStringify(v) ==
    CASE v.k = "string" -> "\"" \o v.s \o "\""
      [] v.k = "number" -> ToString(v.n)
      [] v.k = "boolean" -> (IF v.n = 1 THEN "true" ELSE "false")
      [] v.k = "null" -> "null"
      [] v.k = "object" -> "{" \o StringifyMembers(ObjectEntries(v.e), TRUE) \o "}"
      [] v.k = "undefined" -> "undefined"

ParseFail == [ok |-> FALSE, val |-> Undefined, next |-> 0]

RECURSIVE DigitsEnd(_, _)
DigitsEnd(s, i) ==
    IF i <= Len(s) /\ Ch(s, i) \in Digits THEN DigitsEnd(s, i + 1) ELSE i - 1

RECURSIVE ParseValue(_, _)
RECURSIVE ParseMembers(_, _, _, _)
\* The members of an object from position i, after "{" or after ",".
ParseMembers(s, i, acc, first) ==
    IF first /\ MatchAt(s, "}", i)
    THEN [ok |-> TRUE, val |-> Obj(acc), next |-> i + 1]
    ELSE IF ~MatchAt(s, "\"", i) THEN ParseFail
    ELSE LET q == IndexFrom(s, "\"", i + 1)
         IN  IF q = 0 \/ ~MatchAt(s, ":", q + 1) THEN ParseFail
             ELSE LET r == ParseValue(s, q + 2)
                      ent == [key |-> SubSeq(s, i + 1, q - 1), val |-> r.val]
                  IN  IF ~r.ok THEN ParseFail
                      ELSE IF MatchAt(s, ",", r.next)
                      THEN ParseMembers(s, r.next + 1, Append(acc, ent), FALSE)
                      ELSE IF MatchAt(s, "}", r.next)
                      THEN [ok |-> TRUE, val |-> Obj(Append(acc, ent)),
                            next |-> r.next + 1]
                      ELSE ParseFail

ParseValue(s, i) ==
    IF i > Len(s) THEN ParseFail
    ELSE IF MatchAt(s, "{", i) THEN ParseMembers(s, i + 1, <<>>, TRUE)
    ELSE IF MatchAt(s, "\"", i)
    THEN LET q == IndexFrom(s, "\"", i + 1)
         IN  IF q = 0 THEN ParseFail
             ELSE [ok |-> TRUE, val |-> Str(SubSeq(s, i + 1, q - 1)), next |-> q + 1]
    ELSE IF MatchAt(s, "true", i) THEN [ok |-> TRUE, val |-> Bool(TRUE), next |-> i + 4]
    ELSE IF MatchAt(s, "false", i) THEN [ok |-> TRUE, val |-> Bool(FALSE), next |-> i + 5]
    ELSE IF MatchAt(s, "null", i) THEN [ok |-> TRUE, val |-> Null, next |-> i + 4]
    ELSE IF Ch(s, i) \in Digits
    THEN LET j == DigitsEnd(s, i)
         IN  [ok |-> TRUE, val |-> Num(ParseNat(SubSeq(s, i, j))), next |-> j + 1]
    ELSE IF MatchAt(s, "-", i) /\ DigitsEnd(s, i + 1) > i
    THEN LET j == DigitsEnd(s, i + 1)
         IN  [ok |-> TRUE, val |-> Num(0 - ParseNat(SubSeq(s, i + 1, j))), next |-> j + 1]
    ELSE ParseFail

\* JSON.parse(text): [ok, val]; ok is FALSE where it throws a SyntaxError.
JsonParse(text) ==
    LET r == ParseValue(text, 1)
    IN  IF r.ok /\ r.next = Len(text) + 1
        THEN [ok |-> TRUE, val |-> r.val]
        ELSE [ok |-> FALSE, val |-> Undefined]

(***************************************************************************)
(* The client instance.                                                    *)
(***************************************************************************)
\* props: frozen when the instance is created.
Props ==
    [basePath |-> "https://api.everhour.com",
     version |-> "1.2",
     lastIndex |-> 0]     \* match position of the global extractParams pattern

HeaderNames == {"Content-Type", "X-Api-Key", "X-Accept-Version"}

\* headers as the field initializer leaves them: sealed, the key still empty.
InitialHeaders ==
    [h \in HeaderNames |->
        CASE h = "Content-Type" -> Str("application/json")
          [] h = "X-Api-Key" -> Str("")
          [] h = "X-Accept-Version" -> Str(Props.version)]

\* A constructor that leaves the headers unfrozen.
NoFreeze(headers) == FALSE

\* Object.freeze(this.headers) at the end of the constructor.
FreezeHeaders(headers) == TRUE

NoClient ==
    [state |-> "none", apiKey |-> Undefined, props |-> Props, propsFrozen |-> TRUE,
     headers |-> InitialHeaders, headersFrozen |-> FALSE, lastWrite |-> "none"]

\* new EverhourApiClient(apiKey): the field initializers, then the constructor body.
NewClient(apiKey) ==
    LET headers == [InitialHeaders EXCEPT !["X-Api-Key"] = apiKey]
    IN  [state |-> "ready",
         apiKey |-> apiKey,      \* the constructor's argument, kept for reference
         props |-> Props, propsFrozen |-> TRUE,
         headers |-> headers, headersFrozen |-> FreezeHeaders(headers),
         lastWrite |-> "none"]

\* The header values fetch puts on the wire: every value converted to a string.
WireHeaders(headers) == [h \in DOMAIN headers |-> ToStr(headers[h])]

(***************************************************************************)
(* Calls.  A call slot runs one operation: createUrl, then apiRequest with *)
(* the URL built, up to the outcome the caller receives.                   *)
(***************************************************************************)
Methods == {"DELETE", "GET", "POST", "PUT"}

NoResponse == [status |-> 0, body |-> ""]

NoOutcome == [kind |-> "none", value |-> Undefined, message |-> ""]

NoRequest ==
    [url |-> "", method |-> "", headers |-> WireHeaders(InitialHeaders),
     hasBody |-> FALSE, body |-> ""]

IdleCall ==
    [pc |-> "idle",
     op |-> "",              \* the endpoint wrapper that runs the call ("" when
                             \* the caller uses the client's methods itself)
     steps |-> <<>>,         \* the client's methods called so far, in order
     path |-> "", pathParams |-> <<>>, searchParams |-> <<>>,
     built |-> Result("none", NoUrl, "", ""),
     method |-> "", payload |-> Undefined,
     fetches |-> 0,          \* network calls issued for this call
     request |-> NoRequest,  \* what the last of them handed to fetch
     decodes |-> <<>>,       \* body reads started on the response, in order
     response |-> NoResponse,
     outcome |-> NoOutcome]

\* Request options with the body attached on a truthiness test of the payload.
RequestOptionsTruthy(headers, method, payload) ==
    IF payload \notin {Undefined, Null}
    THEN [method |-> method, headers |-> headers, hasBody |-> TRUE,
          body |-> JsonStringify(payload)]
    ELSE [method |-> method, headers |-> headers, hasBody |-> FALSE, body |-> ""]

\* The request options apiRequest composes.
RequestOptions(headers, method, payload) ==
    IF payload # Undefined
    THEN [method |-> method, headers |-> headers, hasBody |-> TRUE,
          body |-> JsonStringify(payload)]
    ELSE [method |-> method, headers |-> headers, hasBody |-> FALSE, body |-> ""]

\* A status test that lets 300 through.
IsOkInclusive(status) == status >= 200 /\ status <= 300

\* The status test of the fetch callback.
IsOk(status) == status >= 200 /\ status < 300

\* A message that leaves the response text out.
StatusOnlyMessage(status, text) == "Status: " \o ToString(status)

\* The message of the error apiRequest throws on a status outside the range.
RequestFailedMessage(status, text) ==
    "Status: " \o ToString(status) \o ", Text: '" \o text \o "'"

\* fetch builds a Request from the options and refuses a body on GET with a
\* TypeError: it rejects and nothing goes out.
RefusedByFetch(request) == request.method = "GET" /\ request.hasBody

\* A callback that reads the body as text before it tests the status.
OnResponseTextFirst(call, response) ==
    [call EXCEPT
        !.response = response,
        !.pc = IF IsOk(response.status) THEN "json" ELSE "text",
        !.decodes = IF IsOk(response.status) THEN <<"text", "json">> ELSE <<"text">>]

\* A callback that has the request sent again on a status outside the range.
OnResponseRetrying(call, response) ==
    IF IsOk(response.status)
    THEN [call EXCEPT !.response = response, !.pc = "json",
                      !.decodes = Append(@, "json")]
    ELSE [call EXCEPT !.response = response]

\* A call after fetch resolved with a response: the callback tests the
\* status and starts reading the body with the decoder the status selects.
OnResponse(call, response) ==
    [call EXCEPT
        !.response = response,
        !.pc = IF IsOk(response.status) THEN "json" ELSE "text",
        !.decodes = Append(@, IF IsOk(response.status) THEN "json" ELSE "text")]

Outcome(kind, value, message) == [kind |-> kind, value |-> value, message |-> message]

\* A call after fetch rejected, with one more fetch before giving up.
OnFetchRejectedRetry(call) ==
    IF call.fetches < 2
    THEN [call EXCEPT !.fetches = @ + 1]
    ELSE [call EXCEPT !.pc = "done",
                      !.outcome = [kind |-> "TransportFailure", value |-> Undefined,
                                   message |-> "fetch failed"]]

\* A call after fetch rejected: apiRequest has no handler for the rejection,
\* which settles the promise the caller awaits.
OnFetchRejected(call) ==
    [call EXCEPT !.pc = "done",
                 !.outcome = Outcome("TransportFailure", Undefined, "fetch failed")]

\* A call after response.json() settled: the decoded value is returned, or
\* the decoder's SyntaxError is thrown to the caller.
OnJsonSettled(call) ==
    LET r == JsonParse(call.response.body)
    IN  [call EXCEPT
            !.pc = "done",
            !.outcome = IF r.ok THEN Outcome("returned", r.val, "")
                        ELSE Outcome("SyntaxError", Undefined, "Unexpected token in JSON")]

\* A callback that throws a RequiredError for the status.
OnTextSettledRequiredError(call) ==
    [call EXCEPT
        !.pc = "done",
        !.outcome = Outcome("RequiredError", Undefined,
                            RequestFailedMessage(call.response.status, call.response.body))]

\* A call after response.text() settled: the request-failed error is thrown.
OnTextSettled(call) ==
    [call EXCEPT
        !.pc = "done",
        !.outcome = Outcome("Error", Undefined,
                            RequestFailedMessage(call.response.status, call.response.body))]

\* A call after createUrl(in.path, in.pathParams, in.searchParams) gave r:
\* the URL is kept for the request, an error thrown ends the operation.
Built(in, r) ==
    [IdleCall EXCEPT
        !.steps = <<"createUrl">>,
        !.path = in.path, !.pathParams = in.pathParams,
        !.searchParams = in.searchParams, !.built = r,
        !.pc = IF r.kind = "url" THEN "built" ELSE "done",
        !.outcome = IF r.kind = "url" THEN NoOutcome
                    ELSE Outcome(r.kind, Undefined, r.message)]

\* An apiRequest that marks the URL object it was given.
DispatchedMarkingUrl(call, headers, method, payload) ==
    LET options == RequestOptions(headers, method, payload)
    IN  [call EXCEPT
            !.steps = Append(@, "apiRequest"),
            !.pc = "fetching",
            !.method = method,
            !.payload = payload,
            !.fetches = @ + 1,
            !.built.url.hash = "#sent",
            !.request = [url |-> call.built.url.href,
                         method |-> options.method,
                         headers |-> WireHeaders(options.headers),
                         hasBody |-> options.hasBody,
                         body |-> options.body]]

\* A call after apiRequest(method, call.built.url, payload) ran up to its
\* call of fetch.
Dispatched(call, headers, method, payload) ==
    LET options == RequestOptions(headers, method, payload)
    IN  [call EXCEPT
            !.steps = Append(@, "apiRequest"),
            !.pc = "fetching",
            !.method = method,
            !.payload = payload,
            !.fetches = @ + 1,
            !.request = [url |-> call.built.url.href,
                         method |-> options.method,
                         headers |-> WireHeaders(options.headers),
                         hasBody |-> options.hasBody,
                         body |-> options.body]]

(***************************************************************************)
(* Inputs of the client machine.                                           *)
(***************************************************************************)
Ent(key, val) == [key |-> key, val |-> val]

ApiKeys == {Str("k-1234"), Str(""), Undefined}

\* createUrl calls as the endpoint wrappers and their callers make them: one
\* that succeeds, and placeholders left absent or given a wrong type.
OpUrlInputs ==
    { [path |-> "/users/me", pathParams |-> <<>>, searchParams |-> <<>>],
      [path |-> "/tasks/{taskId}", pathParams |-> <<>>, searchParams |-> <<>>],
      [path |-> "/tasks/{taskId}/time",
       pathParams |-> <<Ent("taskId", Bool(TRUE))>>,
       searchParams |-> <<Ent("from", Str("2020-01-01"))>>],
      [path |-> "/tasks/{taskId}/time",
       pathParams |-> <<Ent("taskId", Undefined)>>, searchParams |-> <<>>],
      [path |-> "/tasks/{taskId}/time",
       pathParams |-> <<Ent("taskId", Null)>>, searchParams |-> <<>>],
      [path |-> "/p/{taskId}/s/{b}",
       pathParams |-> <<Ent("taskId", Num(7))>>, searchParams |-> <<>>] }

Payloads == {Undefined, Null, Obj(<<Ent("name", Str("A")), Ent("time", Num(3600))>>)}

Resp(status, body) == [status |-> status, body |-> body]

UserJson == "{\"id\":1,\"name\":\"A\"}"

\* What the transport may answer: both sides of each end of the status
\* range, JSON and non-JSON bodies inside it, JSON and text bodies outside it.
Responses ==
    { Resp(199, "{}"), Resp(200, UserJson), Resp(200, "not found"),
      Resp(201, "{}"), Resp(204, ""), Resp(299, "{}"), Resp(300, "{}"),
      Resp(404, "not found"), Resp(429, ""), Resp(500, UserJson) }

(***************************************************************************)
(* Actions of the client machine.                                          *)
(***************************************************************************)
\* new EverhourApiClient(apiKey)
Construct(apiKey) ==
    /\ client.state = "none"
    /\ client' = NewClient(apiKey)
    /\ UNCHANGED <<calls, urlIn, urlOut>>

\* client.headers[name] = value, attempted from outside after construction:
\* a frozen mapping rejects every write and a sealed one a new key
\* (TypeError in module code).
WriteHeader(name, value) ==
    /\ client.state = "ready"
    /\ client' =
         IF client.headersFrozen \/ name \notin DOMAIN client.headers
         THEN [client EXCEPT !.lastWrite = "TypeError"]
         ELSE [client EXCEPT !.headers[name] = value, !.lastWrite = "written"]
    /\ UNCHANGED <<calls, urlIn, urlOut>>

\* client.props[name] = value, attempted from outside: props is frozen.
WriteProps(name, value) ==
    /\ client.state = "ready"
    /\ client' =
         IF client.propsFrozen
         THEN [client EXCEPT !.lastWrite = "TypeError"]
         ELSE [client EXCEPT !.props[name] = value, !.lastWrite = "written"]
    /\ UNCHANGED <<calls, urlIn, urlOut>>

\* client.createUrl(path, pathParams, searchParams) at the start of an
\* operation: the URL, or the error thrown to the caller.
CallCreateUrl(c, in) ==
    /\ client.state = "ready"
    /\ calls[c].pc = "idle"
    /\ LET r == createUrl(client.props, in.path, in.pathParams, in.searchParams)
       IN  calls' = [calls EXCEPT ![c] = Built(in, r)]
    /\ client' = [client EXCEPT !.props = PropsAfterCreateUrl(client.props, in.path)]
    /\ UNCHANGED <<urlIn, urlOut>>

\* client.apiRequest(method, url, payload) up to its call of fetch.
ApiRequest(c, method, payload) ==
    /\ calls[c].pc = "built"
    /\ calls' = [calls EXCEPT ![c] = Dispatched(calls[c], client.headers, method, payload)]
    /\ UNCHANGED <<client, urlIn, urlOut>>

\* fetch resolves with a response.
FetchResolves(c, response) ==
    /\ calls[c].pc = "fetching"
    /\ ~RefusedByFetch(calls[c].request)
    /\ calls' = [calls EXCEPT ![c] = OnResponse(calls[c], response)]
    /\ UNCHANGED <<client, urlIn, urlOut>>

\* fetch rejects: the transport failed.
FetchRejects(c) ==
    /\ calls[c].pc = "fetching"
    /\ calls' = [calls EXCEPT ![c] = OnFetchRejected(calls[c])]
    /\ UNCHANGED <<client, urlIn, urlOut>>

\* await response.json() settles.
JsonSettles(c) ==
    /\ calls[c].pc = "json"
    /\ calls' = [calls EXCEPT ![c] = OnJsonSettled(calls[c])]
    /\ UNCHANGED <<client, urlIn, urlOut>>

\* await response.text() settles.
TextSettles(c) ==
    /\ calls[c].pc = "text"
    /\ calls' = [calls EXCEPT ![c] = OnTextSettled(calls[c])]
    /\ UNCHANGED <<client, urlIn, urlOut>>

\* The caller has consumed the outcome; the slot is free for the next operation.
Consume(c) ==
    /\ calls[c].pc = "done"
    /\ calls' = [calls EXCEPT ![c] = IdleCall]
    /\ UNCHANGED <<client, urlIn, urlOut>>

NoUrlIn == [path |-> "", pathParams |-> <<>>, searchParams |-> <<>>]

Init ==
    /\ client = NoClient
    /\ calls = [c \in 1..MaxCalls |-> IdleCall]
    /\ urlIn = NoUrlIn
    /\ urlOut = Result("none", NoUrl, "", "")

Next ==
    \/ \E apiKey \in ApiKeys : Construct(apiKey)
    \/ \E name \in {"X-Api-Key", "X-Extra"} : WriteHeader(name, Str("other-key"))
    \/ WriteProps("basePath", "https://other.example")
    \/ \E c \in DOMAIN calls, in \in OpUrlInputs : CallCreateUrl(c, in)
    \/ \E c \in DOMAIN calls, method \in Methods, payload \in Payloads :
           ApiRequest(c, method, payload)
    \/ \E c \in DOMAIN calls, response \in Responses : FetchResolves(c, response)
    \/ \E c \in DOMAIN calls : FetchRejects(c)
    \/ \E c \in DOMAIN calls : JsonSettles(c)
    \/ \E c \in DOMAIN calls : TextSettles(c)
    \/ \E c \in DOMAIN calls : Consume(c)

Spec == Init /\ [][Next]_vars

(***************************************************************************)
(* createUrl as a pure function: the arguments are drawn in the initial    *)
(* state and one call is made on a constructed client.                     *)
(***************************************************************************)
\* Path templates as the endpoint wrappers write them: no placeholder, one,
\* two distinct ones, and one placeholder used twice.
Templates == {"/users/me", "/tasks/{taskId}/time", "/p/{taskId}/s/{b}", "/t/{b}/{b}"}

PathKeys == {"taskId", "b", "x"}

PathVals == {Str("abc"), Str("a/b c"), Str(".."), Str("{b}"), Num(42), Bool(TRUE), Null}

QueryKeys == {"from", "to", "1"}

QueryVals == {Str("2020-01-01"), Str("a b"), Num(7), Undefined}

Entries(keys, vals) == {Ent(key, val) : key \in keys, val \in vals}

\* The mappings with at most max entries, in every insertion order.
Mappings(keys, vals, max) ==
    UNION { { m \in [1..n -> Entries(keys, vals)] :
                \A i, j \in 1..n : i # j => m[i].key # m[j].key }
            : n \in 0..max }

\* The searchParams every pathParams mapping is tried with.
QuerySamples ==
    { <<>>,
      <<Ent("from", Str("2020-01-01")), Ent("to", Undefined)>>,
      <<Ent("from", Str("a b"))>> }

\* The pathParams every searchParams mapping is tried with.
PathSamples ==
    { <<>>,
      <<Ent("taskId", Str("abc"))>>,
      <<Ent("taskId", Str(".."))>>,
      <<Ent("b", Num(42)), Ent("taskId", Str("a/b c"))>> }

\* Every template with every pathParams mapping, and with every
\* searchParams mapping.
UrlInputs ==
    { [path |-> path, pathParams |-> pp, searchParams |-> sp] :
        path \in Templates,
        pp \in Mappings(PathKeys, PathVals, MaxPathEntries),
        sp \in QuerySamples }
    \cup
    { [path |-> path, pathParams |-> pp, searchParams |-> sp] :
        path \in Templates,
        pp \in PathSamples,
        sp \in Mappings(QueryKeys, QueryVals, MaxQueryEntries) }

NoResult == Result("none", NoUrl, "", "")

InitUrl ==
    /\ client = NewClient(Str("k-1234"))
    /\ calls = [c \in 1..MaxCalls |-> IdleCall]
    /\ urlIn \in UrlInputs
    /\ urlOut = NoResult

\* client.createUrl(urlIn.path, urlIn.pathParams, urlIn.searchParams)
UrlCreate ==
    /\ urlOut.kind = "none"
    /\ urlOut' = createUrl(client.props, urlIn.path, urlIn.pathParams,
                           urlIn.searchParams)
    /\ client' = [client EXCEPT !.props = PropsAfterCreateUrl(client.props, urlIn.path)]
    /\ UNCHANGED <<calls, urlIn>>

NextUrl == UrlCreate

SpecUrl == InitUrl /\ [][NextUrl]_vars

(***************************************************************************)
(* Endpoint wrappers.  A wrapper builds its URL with createUrl from a      *)
(* literal template and its arguments, then awaits apiRequest with its     *)
(* method.  Several wrapper calls can be in flight on one client.          *)
(***************************************************************************)
MaxInFlight == 2      \* wrapper calls that can be in flight at once

\* What a wrapper passes to createUrl and to apiRequest.
Endpoint(op, path, pathParams, searchParams, method, payload) ==
    [op |-> op, path |-> path, pathParams |-> pathParams,
     searchParams |-> searchParams, method |-> method, payload |-> payload]

\* getCurrentUser sending its request with POST.
getCurrentUserByPost ==
    Endpoint("getCurrentUser", "/users/me", <<>>, <<>>, "POST", Undefined)

\* getCurrentUser(client)
getCurrentUser ==
    Endpoint("getCurrentUser", "/users/me", <<>>, <<>>, "GET", Undefined)

\* getTask(client): the template has a placeholder, createUrl is given no
\* pathParams.
getTask ==
    Endpoint("getTask", "/tasks/{taskId}", <<>>, <<>>, "GET", Undefined)

\* addTime(client, taskId, payload)
addTime(taskId, payload) ==
    Endpoint("addTime", "/tasks/{taskId}/time", <<Ent("taskId", taskId)>>, <<>>,
             "POST", payload)

\* deleteTimecard(client, userId, date)
deleteTimecard(userId, date) ==
    Endpoint("deleteTimecard", "/users/{userId}/timecards/{date}",
             <<Ent("userId", userId), Ent("date", date)>>, <<>>,
             "DELETE", Undefined)

TimeRecordRequest == Obj(<<Ent("time", Num(3600)), Ent("date", Str("2020-12-31"))>>)

\* The wrapper calls made, with arguments of the declared types.
WrapperCalls ==
    { getCurrentUser, getTask,
      addTime(Str("t1"), TimeRecordRequest), addTime(Str("a/b"), TimeRecordRequest),
      deleteTimecard(Num(7), Str("2020-12-31")) }

WrapperResponses ==
    { Resp(200, UserJson), Resp(204, ""), Resp(299, "{}"), Resp(404, "not found") }

\* A wrapper that gives its caller undefined when createUrl throws.
WrapperSwallowing(props, headers, w) ==
    LET in == [path |-> w.path, pathParams |-> w.pathParams,
               searchParams |-> w.searchParams]
        r == createUrl(props, in.path, in.pathParams, in.searchParams)
        call == [Built(in, r) EXCEPT !.op = w.op]
    IN  IF r.kind = "url" THEN Dispatched(call, headers, w.method, w.payload)
        ELSE [call EXCEPT !.outcome = Outcome("returned", Undefined, "")]

\* The call a wrapper leaves when it reaches its await: createUrl first; an
\* error it throws rejects the wrapper's promise and apiRequest is not
\* called; otherwise apiRequest runs, with the URL built, up to fetch.
Wrapper(props, headers, w) ==
    LET in == [path |-> w.path, pathParams |-> w.pathParams,
               searchParams |-> w.searchParams]
        r == createUrl(props, in.path, in.pathParams, in.searchParams)
        call == [Built(in, r) EXCEPT !.op = w.op]
    IN  IF r.kind = "url" THEN Dispatched(call, headers, w.method, w.payload)
        ELSE call

\* A caller calls the wrapper w.
CallWrapper(c, w) ==
    /\ client.state = "ready"
    /\ calls[c].pc = "idle"
    /\ calls' = [calls EXCEPT ![c] = Wrapper(client.props, client.headers, w)]
    /\ client' = [client EXCEPT !.props = PropsAfterCreateUrl(client.props, w.path)]
    /\ UNCHANGED <<urlIn, urlOut>>

InitWrappers ==
    /\ client = NewClient(Str("k-1234"))
    /\ calls = [c \in 1..MaxInFlight |-> IdleCall]
    /\ urlIn = NoUrlIn
    /\ urlOut = NoResult

NextWrappers ==
    \/ WriteHeader("X-Api-Key", Str("other-key"))
    \/ \E c \in DOMAIN calls, w \in WrapperCalls : CallWrapper(c, w)
    \/ \E c \in DOMAIN calls, response \in WrapperResponses : FetchResolves(c, response)
    \/ \E c \in DOMAIN calls : FetchRejects(c)
    \/ \E c \in DOMAIN calls : JsonSettles(c)
    \/ \E c \in DOMAIN calls : TextSettles(c)
    \/ \E c \in DOMAIN calls : Consume(c)

SpecWrappers == InitWrappers /\ [][NextWrappers]_vars

(***************************************************************************)
(* Wrapper calls with a transport that answers.  A call waits at           *)
(* await fetch(...) and at await response.json() / text(); it goes on when *)
(* the promise settles.  The transport is taken to answer the calls of all *)
(* slots but the last, whose network call may stay unanswered.             *)
(***************************************************************************)
FairWrapperCalls ==
    { getCurrentUser, getTask, addTime(Str("t1"), TimeRecordRequest) }

FairResponses == { Resp(200, "{}"), Resp(204, ""), Resp(404, "not found"), Resp(429, "") }

\* The slots whose network calls the transport answers.
AnsweredSlots == 1..(MaxInFlight - 1)

\* The promise of fetch settles for the call in slot c.
TransportAnswers(c) ==
    \/ \E response \in FairResponses : FetchResolves(c, response)
    \/ FetchRejects(c)

\* The promise of the body read settles for the call in slot c.
BodySettles(c) == JsonSettles(c) \/ TextSettles(c)

NextFair ==
    \/ \E c \in DOMAIN calls, w \in FairWrapperCalls : CallWrapper(c, w)
    \/ \E c \in DOMAIN calls, response \in FairResponses : FetchResolves(c, response)
    \/ \E c \in DOMAIN calls : FetchRejects(c)
    \/ \E c \in DOMAIN calls : JsonSettles(c)
    \/ \E c \in DOMAIN calls : TextSettles(c)
    \/ \E c \in DOMAIN calls : Consume(c)

\* A settled promise's continuation is run by the event loop.
Fairness ==
    \A c \in AnsweredSlots :
        WF_vars(TransportAnswers(c)) /\ WF_vars(BodySettles(c))

SpecFair == InitWrappers /\ [][NextFair]_vars /\ Fairness

(***************************************************************************)
(* Claims.                                                                 *)
(***************************************************************************)
\* A value createUrl accepts for a placeholder: a string or a number.
IsStringOrNumber(v) == v.k \in {"string", "number"}

\* Every placeholder of the template has a string or number in pathParams.
CompleteMapping(path, pathParams) ==
    \A i \in 1..Len(ExtractParams(path)) :
        /\ HasKey(pathParams, ExtractParams(path)[i])
        /\ IsStringOrNumber(Get(pathParams, ExtractParams(path)[i]))

\* No value of the mapping holds a brace (whose escape would then be part of
\* the encoded value).
BraceFree(pathParams) ==
    \A i \in 1..Len(pathParams) :
        /\ ~Contains(ToStr(pathParams[i].val), "{")
        /\ ~Contains(ToStr(pathParams[i].val), "}")

DistinctPlaceholders(path) ==
    \A i, j \in 1..Len(ExtractParams(path)) :
        i # j => ExtractParams(path)[i] # ExtractParams(path)[j]

RECURSIVE ExpectedPathFrom(_, _, _)
\* The template with every {name} replaced by the percent-encoded string
\* form of pathParams[name].
ExpectedPathFrom(path, pathParams, i) ==
    IF i > Len(path) THEN ""
    ELSE LET close == IndexFrom(path, "}", i)
         IN  IF Ch(path, i) = "{" /\ close > i + 1
             THEN EncodeURIComponent(Get(pathParams, SubSeq(path, i + 1, close - 1)))
                      \o ExpectedPathFrom(path, pathParams, close + 1)
             ELSE Ch(path, i) \o ExpectedPathFrom(path, pathParams, i + 1)

ExpectedPath(path, pathParams) == ExpectedPathFrom(path, pathParams, 1)

\* C1: for a template with distinct placeholders and a pathParams mapping
\* that gives a string or number for each, createUrl returns a URL whose
\* path is the template with every placeholder replaced by the
\* percent-encoded string form of its value, and holds no {...} token (raw
\* or escaped); with no placeholder the path is the template.
C1_SubstitutedPath ==
    (/\ urlOut.kind # "none"
     /\ DistinctPlaceholders(urlIn.path)
     /\ CompleteMapping(urlIn.path, urlIn.pathParams))
    => /\ urlOut.kind = "url"
       /\ urlOut.url.pathname = ExpectedPath(urlIn.path, urlIn.pathParams)
       /\ ~Contains(urlOut.url.pathname, "{")
       /\ BraceFree(urlIn.pathParams) => ~Contains(urlOut.url.pathname, "%7B")

\* The name=value pairs of a URL's query string.
QueryPairs(url) ==
    IF url.search = "" THEN {}
    ELSE LET parts == Split(SubSeq(url.search, 2, Len(url.search)), "&")
         IN  {parts[i] : i \in 1..Len(parts)}

EndsWith(s, suffix) ==
    Len(suffix) <= Len(s) /\ SubSeq(s, Len(s) - Len(suffix) + 1, Len(s)) = suffix

TaskTimeScenario ==
    [path |-> "/tasks/{taskId}/time",
     pathParams |-> <<Ent("taskId", Str("abc"))>>,
     searchParams |-> <<Ent("from", Str("2020-01-01")), Ent("to", Undefined)>>]

\* C3: in the URL createUrl returns, a searchParams key whose value is
\* undefined has no pair in the query string; a key with a defined value
\* has the pair key=value where value is the percent-encoding of the
\* value's string form, so that decoding it once gives the string form
\* back; when every value is undefined the URL holds no "?"; and the
\* task-time scenario ends in /tasks/abc/time?from=2020-01-01.
C3_QueryString ==
    urlOut.kind = "url" =>
        /\ \A i \in 1..Len(urlIn.searchParams) :
               LET ent == urlIn.searchParams[i]
               IN  IF ent.val = Undefined
                   THEN \A pair \in QueryPairs(urlOut.url) :
                            ~MatchAt(pair, ent.key \o "=", 1)
                   ELSE /\ (ent.key \o "=" \o EncodeURIComponent(ent.val))
                               \in QueryPairs(urlOut.url)
                        /\ \E pair \in QueryPairs(urlOut.url) :
                               /\ MatchAt(pair, ent.key \o "=", 1)
                               /\ DecodeURIComponent(
                                      SubSeq(pair, Len(ent.key) + 2, Len(pair)))
                                    = ToStr(ent.val)
        /\ (\A i \in 1..Len(urlIn.searchParams) : urlIn.searchParams[i].val = Undefined)
               => ~Contains(urlOut.url.href, "?")
        /\ urlIn = TaskTimeScenario
               => EndsWith(urlOut.url.href, "/tasks/abc/time?from=2020-01-01")

Slots == DOMAIN calls

\* The call has handed a request to fetch.
Sent(call) == call.fetches > 0

\* The call has received a response.
Answered(call) == call.response # NoResponse

\* The status range [200, 300).
InOkRange(status) == status \in 200..299

\* The caller has the outcome of an apiRequest call.
Completed(call) == call.pc = "done" /\ call.method # ""

\* C2: when a placeholder of the template is absent from pathParams, or has
\* a value that is neither a string nor a number, createUrl throws a
\* RequiredError, produces no URL, and the operation issues no network call.
C2_RequiredErrorBeforeNetwork ==
    \A c \in Slots :
        (calls[c].pc # "idle" /\ ~CompleteMapping(calls[c].path, calls[c].pathParams))
        => /\ calls[c].pc = "done"
           /\ calls[c].built.kind = "RequiredError"
           /\ calls[c].built.url = NoUrl
           /\ calls[c].outcome.kind = "RequiredError"
           /\ calls[c].fetches = 0
           /\ calls[c].request = NoRequest

\* A wrongly typed placeholder value (a boolean) was rejected without a fetch.
C2_Witness ==
    \E c \in Slots :
        /\ calls[c].pc = "done"
        /\ calls[c].pathParams = <<Ent("taskId", Bool(TRUE))>>
        /\ calls[c].outcome.kind = "RequiredError"
        /\ calls[c].fetches = 0

C5_RequestFailedError ==
    \A c \in Slots :
        (calls[c].pc = "done" /\ Answered(calls[c])
             /\ ~InOkRange(calls[c].response.status))
        => /\ calls[c].outcome.kind = "Error"
           /\ calls[c].outcome.value = Undefined
           /\ Contains(calls[c].outcome.message, ToString(calls[c].response.status))
           /\ Contains(calls[c].outcome.message, calls[c].response.body)
           /\ calls[c].response = Resp(404, "not found")
                  => calls[c].outcome.message = "Status: 404, Text: 'not found'"

\* DELETE was answered 404 "not found" and the error reached the caller.
C5_Witness ==
    \E c \in Slots :
        /\ calls[c].pc = "done"
        /\ calls[c].method = "DELETE"
        /\ calls[c].response = Resp(404, "not found")
        /\ calls[c].outcome.kind = "Error"

\* C6: the request handed to fetch has a body exactly when the payload is
\* not undefined, the body is then the JSON text of the payload, and the
\* request carries the method given and the client's headers either way.
C6_RequestBody ==
    \A c \in Slots :
        Sent(calls[c])
        => LET req == calls[c].request
               payload == calls[c].payload
           IN  /\ req.hasBody <=> payload # Undefined
               /\ payload = Undefined => req.body = ""
               /\ payload = Null => req.body = "null"
               /\ payload = Obj(<<Ent("name", Str("A")), Ent("time", Num(3600))>>)
                      => req.body = "{\"name\":\"A\",\"time\":3600}"
               /\ req.method = calls[c].method
               /\ req.method \in Methods
               /\ req.headers = WireHeaders(client.headers)

\* A POST went out with a null payload, which is not undefined: it has a body.
C6_Witness ==
    \E c \in Slots :
        /\ Sent(calls[c])
        /\ calls[c].payload = Null
        /\ calls[c].request.hasBody
        /\ calls[c].request.method = "POST"

\* C7: once the client is constructed with key k, its header mapping is
\* Content-Type: application/json, X-Accept-Version: 1.2, X-Api-Key: k, its
\* configuration is the base address and version it started with, and every
\* request sent carries exactly these headers, whatever calls and attempted
\* writes came before.
C7_FixedHeaders ==
    client.state = "ready"
    => /\ DOMAIN client.headers = HeaderNames
       /\ client.headers["Content-Type"] = Str("application/json")
       /\ client.headers["X-Accept-Version"] = Str("1.2")
       /\ client.headers["X-Api-Key"] = client.apiKey
       /\ client.props.basePath = "https://api.everhour.com"
       /\ client.props.version = "1.2"
       /\ client.props.lastIndex = 0
       /\ \A c \in Slots :
              Sent(calls[c])
              => /\ DOMAIN calls[c].request.headers = HeaderNames
                 /\ calls[c].request.headers["Content-Type"] = "application/json"
                 /\ calls[c].request.headers["X-Accept-Version"] = "1.2"
                 /\ calls[c].request.headers["X-Api-Key"] = ToStr(client.apiKey)

\* A write to the headers was attempted and a request has been sent.
C7_Witness ==
    /\ client.lastWrite = "TypeError"
    /\ client.apiKey = Str("k-1234")
    /\ \E c \in Slots : Sent(calls[c]) /\ calls[c].pc = "done"

\* C8: no request is sent with an empty X-Api-Key header: construction with
\* an empty or absent key yields no client that can send one.
C8_NonEmptyApiKey ==
    \A c \in Slots : Sent(calls[c]) => calls[c].request.headers["X-Api-Key"] # ""

\* C9: an apiRequest call issues exactly one network call: one while it is
\* pending, still one when it has completed, also after a status outside
\* [200, 300) or a transport failure, and the failure is the caller's outcome.
C9_OneNetworkCall ==
    \A c \in Slots :
        /\ calls[c].pc \in {"idle", "built"} => calls[c].fetches = 0
        /\ calls[c].pc \in {"fetching", "json", "text"} => calls[c].fetches = 1
        /\ Completed(calls[c]) => calls[c].fetches = 1
        /\ (Completed(calls[c]) /\ Answered(calls[c])
                /\ ~InOkRange(calls[c].response.status))
               => calls[c].outcome.kind = "Error"
        /\ (Completed(calls[c]) /\ ~Answered(calls[c]))
               => calls[c].outcome.kind = "TransportFailure"

\* A call answered 429 has completed after one network call.
C9_Witness ==
    \E c \in Slots :
        /\ Completed(calls[c])
        /\ calls[c].response.status = 429
        /\ calls[c].fetches = 1
        /\ calls[c].outcome.kind = "Error"

\* C10: every outcome of an operation that the transport did not fail is a
\* result, a RequiredError thrown by createUrl before any request, or the
\* request-failed error thrown on a status outside [200, 300); a call
\* answered with a status in [200, 300) never fails.  (A rejected fetch is
\* the transport's own failure and is left aside.)
C10_TwoErrorKinds ==
    \A c \in Slots :
        (calls[c].pc = "done" /\ (Answered(calls[c]) \/ ~Sent(calls[c])))
        => /\ calls[c].outcome.kind \in {"returned", "RequiredError", "Error"}
           /\ calls[c].outcome.kind = "RequiredError" => ~Sent(calls[c])
           /\ calls[c].outcome.kind = "Error"
                  => Answered(calls[c]) /\ ~InOkRange(calls[c].response.status)
           /\ (Answered(calls[c]) /\ InOkRange(calls[c].response.status))
                  => calls[c].outcome.kind = "returned"

\* The arguments one createUrl call was given.
UrlArgs(call) == <<call.path, call.pathParams, call.searchParams>>

\* C11: createUrl keeps no state between calls: the match position of the
\* shared placeholder pattern is 0 between calls, and any two calls on the
\* client that were given the same template, pathParams and searchParams
\* gave the same result, whatever was called before or in between (calls
\* that failed included).
C11_NoHiddenState ==
    /\ client.props.lastIndex = 0
    /\ \A c, d \in Slots :
           (/\ calls[c].built.kind # "none"
            /\ calls[d].built.kind # "none"
            /\ UrlArgs(calls[c]) = UrlArgs(calls[d]))
           => calls[c].built = calls[d].built

\* Two calls with the same template with a placeholder and the same
\* arguments have both returned, and a call that failed was made as well.
C11_Witness ==
    \E c, d \in Slots :
        /\ c # d
        /\ calls[c].path = "/tasks/{taskId}/time"
        /\ UrlArgs(calls[c]) = UrlArgs(calls[d])
        /\ calls[c].built.kind = "url"
        /\ calls[d].built.kind = "url"
        /\ calls[c].built.url.href = "https://api.everhour.com/tasks/t1/time"

\* C12: a request with method GET never carries a body, whatever payload
\* apiRequest was given.
C12_GetCarriesNoBody ==
    \A c \in Slots :
        (Sent(calls[c]) /\ calls[c].request.method = "GET")
        => ~calls[c].request.hasBody

\* The outcome the caller of a call must get for the response the call
\* itself received.
OwnOutcome(response) ==
    CASE response = Resp(200, UserJson) ->
             Outcome("returned", Obj(<<Ent("id", Num(1)), Ent("name", Str("A"))>>), "")
      [] response = Resp(299, "{}") -> Outcome("returned", Obj(<<>>), "")
      [] response = Resp(204, "") ->
             Outcome("SyntaxError", Undefined, "Unexpected token in JSON")
      [] response = Resp(404, "not found") ->
             Outcome("Error", Undefined, "Status: 404, Text: 'not found'")

\* The body of the request a call must send for its own payload.
OwnBody(payload) ==
    IF payload = TimeRecordRequest
    THEN "{\"time\":3600,\"date\":\"2020-12-31\"}"
    ELSE ""

\* The address a wrapper call must be sent to for its own arguments.
OwnHref(call) ==
    CASE call.op = "getCurrentUser" -> "https://api.everhour.com/users/me"
      [] call.op = "addTime" /\ call.pathParams = <<Ent("taskId", Str("t1"))>> ->
             "https://api.everhour.com/tasks/t1/time"
      [] call.op = "addTime" /\ call.pathParams = <<Ent("taskId", Str("a/b"))>> ->
             "https://api.everhour.com/tasks/a%2Fb/time"
      [] call.op = "deleteTimecard" ->
             "https://api.everhour.com/users/7/timecards/2020-12-31"
      [] OTHER -> ""

\* C13: with several calls in flight and the responses arriving in any
\* order, every request is made of the call's own URL and payload, every
\* outcome is derived from the call's own response, and all calls send the
\* same headers.
C13_CallsIndependent ==
    /\ \A c \in Slots :
           /\ Sent(calls[c])
              => /\ calls[c].request.url = OwnHref(calls[c])
                 /\ calls[c].request.hasBody = (calls[c].payload # Undefined)
                 /\ calls[c].request.body = OwnBody(calls[c].payload)
                 /\ calls[c].request.headers["X-Api-Key"] = "k-1234"
           /\ (calls[c].pc = "done" /\ Answered(calls[c]))
              => calls[c].outcome = OwnOutcome(calls[c].response)
    /\ \A c, d \in Slots :
           (Sent(calls[c]) /\ Sent(calls[d]))
           => calls[c].request.headers = calls[d].request.headers

\* Two calls to different addresses are answered differently; one has
\* completed with its error while the body of the other is still being
\* read, and a write to the shared headers was attempted.
C13_Witness ==
    \E c, d \in Slots :
        /\ c # d
        /\ calls[c].request.url # calls[d].request.url
        /\ calls[c].pc = "done"
        /\ calls[c].response = Resp(404, "not found")
        /\ calls[c].outcome.kind = "Error"
        /\ calls[d].pc = "json"
        /\ calls[d].response = Resp(200, UserJson)
        /\ calls[d].request.hasBody
        /\ client.lastWrite = "TypeError"

\* C14: getCurrentUser issues one GET request without a body to
\* https://api.everhour.com/users/me with the client's fixed headers, and on
\* a status in [200, 300) returns the decoded user object, with its id.
C14_GetCurrentUser ==
    \A c \in Slots :
        calls[c].op = "getCurrentUser"
        => /\ calls[c].fetches = 1
           /\ calls[c].request.method = "GET"
           /\ ~calls[c].request.hasBody
           /\ calls[c].request.url = "https://api.everhour.com/users/me"
           /\ calls[c].request.headers =
                  [h \in HeaderNames |->
                      CASE h = "Content-Type" -> "application/json"
                        [] h = "X-Api-Key" -> "k-1234"
                        [] h = "X-Accept-Version" -> "1.2"]
           /\ (/\ calls[c].pc = "done"
               /\ calls[c].response = Resp(200, UserJson))
              => /\ calls[c].outcome.kind = "returned"
                 /\ Get(calls[c].outcome.value.e, "id") = Num(1)
                 /\ Get(calls[c].outcome.value.e, "name") = Str("A")

\* getCurrentUser has returned the user object.
C14_Witness ==
    \E c \in Slots :
        /\ calls[c].op = "getCurrentUser"
        /\ calls[c].pc = "done"
        /\ calls[c].response.status = 200
        /\ calls[c].outcome.kind = "returned"
        /\ HasKey(calls[c].outcome.value.e, "id")

\* The method each wrapper is declared to use.
MethodOf(op) ==
    CASE op = "getCurrentUser" -> "GET"
      [] op = "getTask" -> "GET"
      [] op = "addTime" -> "POST"
      [] op = "deleteTimecard" -> "DELETE"

\* C15: every wrapper calls createUrl, then apiRequest once with the URL
\* built and the wrapper's method, then returns the decoded result; when
\* createUrl fails, apiRequest is not called and the failure is what the
\* wrapper's caller gets.
C15_WrapperOrder ==
    \A c \in Slots :
        calls[c].op # ""
        => /\ calls[c].steps \in {<<"createUrl">>, <<"createUrl", "apiRequest">>}
           /\ calls[c].built.kind = "url"
              => /\ calls[c].steps = <<"createUrl", "apiRequest">>
                 /\ calls[c].fetches = 1
                 /\ calls[c].request.url = calls[c].built.url.href
                 /\ calls[c].request.method = MethodOf(calls[c].op)
                 /\ calls[c].outcome.kind = "returned"
                    => /\ calls[c].pc = "done"
                       /\ InOkRange(calls[c].response.status)
                       /\ JsonStringify(calls[c].outcome.value) = calls[c].response.body
           /\ calls[c].built.kind # "url"
              => /\ calls[c].steps = <<"createUrl">>
                 /\ calls[c].fetches = 0
                 /\ calls[c].pc = "done"
                 /\ calls[c].outcome.kind = calls[c].built.kind
                 /\ calls[c].outcome.message = calls[c].built.message

\* One wrapper call has returned its decoded result while another has
\* failed in createUrl.
C15_Witness ==
    \E c, d \in Slots :
        /\ calls[c].op = "deleteTimecard"
        /\ calls[c].pc = "done"
        /\ calls[c].outcome.kind = "returned"
        /\ calls[d].op = "getTask"
        /\ calls[d].outcome.kind = "RequiredError"

\* C16: every wrapper called with arguments of its declared types gives
\* createUrl a string or number for every placeholder of its template:
\* createUrl raises no RequiredError and the request is dispatched.
C16_WrappersSupplyPlaceholders ==
    \A c \in Slots :
        calls[c].op # ""
        => /\ calls[c].built.kind # "RequiredError"
           /\ Sent(calls[c])

\* The placeholders of each template, in template order.
PlaceholdersOf(path) ==
    CASE path = "/users/me" -> <<>>
      [] path = "/tasks/{taskId}/time" -> <<"taskId">>
      [] path = "/p/{taskId}/s/{b}" -> <<"taskId", "b">>
      [] path = "/t/{b}/{b}" -> <<"b", "b">>

\* C17: when a placeholder occurs more than once in the template and
\* pathParams gives its value, every occurrence is replaced by the encoded
\* value: no {name} is left in the path, raw or escaped (stated for values
\* that are not dot segments, which the URL parser removes).
C17_EveryOccurrenceReplaced ==
    (/\ urlOut.kind # "none"
     /\ ~DistinctPlaceholders(urlIn.path)
     /\ CompleteMapping(urlIn.path, urlIn.pathParams)
     /\ Get(urlIn.pathParams, "b") # Str(".."))
    => /\ urlOut.kind = "url"
       /\ ~Contains(urlOut.url.pathname, "{")
       /\ BraceFree(urlIn.pathParams) => ~Contains(urlOut.url.pathname, "%7B")
       /\ Get(urlIn.pathParams, "b") = Str("abc")
          => urlOut.url.pathname = "/t/abc/abc"

\* The type createUrl must report for the value pathParams holds at a name.
ReportedType(pathParams, name) ==
    IF ~HasKey(pathParams, name) THEN "undefined"
    ELSE LET v == Get(pathParams, name)
         IN  CASE v.k = "null" -> "object"
               [] v.k = "boolean" -> "boolean"
               [] OTHER -> v.k

\* The positions of the placeholders that have no string or number.
Offending(path, pathParams) ==
    {i \in 1..Len(PlaceholdersOf(path)) :
        \/ ~HasKey(pathParams, PlaceholdersOf(path)[i])
        \/ ~IsStringOrNumber(Get(pathParams, PlaceholdersOf(path)[i]))}

\* C18: createUrl fails exactly when some placeholder has no string or
\* number, absent and wrongly typed alike; the RequiredError's field is the
\* first such placeholder in template order, and its message names that
\* placeholder and the type received (undefined, boolean, object for null).
C18_RequiredErrorNamesFieldAndType ==
    urlOut.kind # "none"
    => LET bad == Offending(urlIn.path, urlIn.pathParams)
       IN  /\ (urlOut.kind = "RequiredError") = (bad # {})
           /\ bad # {}
              => LET first == CHOOSE i \in bad : \A j \in bad : i <= j
                     name == PlaceholdersOf(urlIn.path)[first]
                 IN  /\ urlOut.field = name
                     /\ urlOut.message =
                            "Required parameter " \o name
                                \o " was undefined or had the wrong type: "
                                \o ReportedType(urlIn.pathParams, name) \o "."

\* The second placeholder is the first one without a string or number, its
\* value is null, and a later entry order does not matter: b is reported.
C18_Witness ==
    /\ urlIn.path = "/p/{taskId}/s/{b}"
    /\ urlIn.pathParams = <<Ent("b", Null), Ent("taskId", Num(42))>>
    /\ urlOut.kind = "RequiredError"
    /\ urlOut.field = "b"
    /\ urlOut.message = "Required parameter b was undefined or had the wrong type: object."

RECURSIVE CountOf(_, _, _)
\* The number of occurrences of the character ch in s from position i on.
CountOf(s, ch, i) ==
    IF i > Len(s) THEN 0
    ELSE (IF Ch(s, i) = ch THEN 1 ELSE 0) + CountOf(s, ch, i + 1)

\* The number of segments of a path that begins with "/".
SegmentCount(path) == CountOf(path, "/", 1)

\* C19: every URL createUrl returns for a template that begins with "/" and
\* string or number values has the scheme and host of the base address
\* https://api.everhour.com and a path with as many segments as the template.
C19_BaseOriginAndSegments ==
    (/\ urlOut.kind = "url"
     /\ CompleteMapping(urlIn.path, urlIn.pathParams))
    => /\ urlOut.url.origin = "https://api.everhour.com"
       /\ MatchAt(urlOut.url.href, "https://api.everhour.com/", 1)
       /\ SegmentCount(urlOut.url.pathname) = SegmentCount(urlIn.path)

RECURSIVE OnlyPlaceholders(_, _)
\* The entries of pathParams whose key is a placeholder of the template.
OnlyPlaceholders(path, pathParams) ==
    IF Len(pathParams) = 0 THEN <<>>
    ELSE (IF \E i \in 1..Len(PlaceholdersOf(path)) :
                 PlaceholdersOf(path)[i] = Head(pathParams).key
          THEN <<Head(pathParams)>> ELSE <<>>)
             \o OnlyPlaceholders(path, Tail(pathParams))

Orders(n) == {p \in [1..n -> 1..n] : \A i, j \in 1..n : i # j => p[i] # p[j]}

\* The mapping m with its entries inserted in the order p.
Reordered(m, p) == [i \in 1..Len(m) |-> m[p[i]]]

\* C21: for a template with distinct placeholders, pathParams mappings with
\* the same entries inserted in different orders give the same result, and a
\* value that reads as a placeholder is never substituted again: it stays in
\* the path, escaped.
C21_SubstitutionOrderIndependent ==
    (urlOut.kind # "none" /\ DistinctPlaceholders(urlIn.path))
    => /\ \A p \in Orders(Len(urlIn.pathParams)) :
              createUrl(Props, urlIn.path, Reordered(urlIn.pathParams, p),
                        urlIn.searchParams) = urlOut
       /\ (/\ urlIn.path = "/p/{taskId}/s/{b}"
           /\ HasKey(urlIn.pathParams, "taskId")
           /\ HasKey(urlIn.pathParams, "b")
           /\ Get(urlIn.pathParams, "taskId") = Str("{b}")
           /\ Get(urlIn.pathParams, "b") = Str("abc"))
          => /\ urlOut.kind = "url"
             /\ urlOut.url.pathname = "/p/%7Bb%7D/s/abc"

\* The value of taskId reads as the placeholder {b}, and b was inserted
\* before taskId; a third entry is there as well.
C21_Witness ==
    /\ urlIn.path = "/p/{taskId}/s/{b}"
    /\ urlIn.pathParams =
           <<Ent("b", Str("abc")), Ent("x", Num(42)), Ent("taskId", Str("{b}"))>>
    /\ urlOut.kind = "url"
    /\ urlOut.url.pathname = "/p/%7Bb%7D/s/abc"

RECURSIVE DefinedKeys(_)
\* The keys of the searchParams entries with a defined value, in insertion
\* order.
DefinedKeys(searchParams) ==
    IF Len(searchParams) = 0 THEN <<>>
    ELSE (IF Head(searchParams).val # Undefined
          THEN <<Head(searchParams).key>> ELSE <<>>)
             \o DefinedKeys(Tail(searchParams))

\* The keys of the key=value pairs of a URL's query string, in order.
QueryKeysInOrder(url) ==
    IF url.search = "" THEN <<>>
    ELSE LET parts == Split(SubSeq(url.search, 2, Len(url.search)), "&")
         IN  [i \in 1..Len(parts) |-> SubSeq(parts[i], 1, IndexOf(parts[i], "=") - 1)]

\* C22: the pairs of the query string createUrl builds are those of the
\* searchParams entries with a defined value, each once, in the order the
\* entries were inserted, keys that look like integers included.
C22_QueryInInsertionOrder ==
    urlOut.kind = "url"
    => QueryKeysInOrder(urlOut.url) = DefinedKeys(urlIn.searchParams)

\* The ways a call can end: with the decoded result or with an error.
Ended(call) ==
    /\ call.pc = "done"
    /\ call.outcome.kind \in {"returned", "Error", "SyntaxError", "TransportFailure"}

\* A step of a call that waits for fetch: the response arrives, or fetch
\* fails.
AnswerStep(before, after) ==
    \/ after.pc \in {"json", "text"} /\ Answered(after) /\ after.fetches = before.fetches
    \/ after.pc = "done" /\ after.outcome.kind = "TransportFailure"

\* C23: a call whose network call the transport answers ends with the
\* decoded result or an error, whether or not the other calls are answered;
\* a call that waits for the transport leaves that state only when the
\* transport answers (no timeout, no cancellation), so an unanswered call
\* stays pending.
C23_CallsComplete ==
    /\ \A c \in AnsweredSlots : (calls[c].pc = "fetching") ~> Ended(calls[c])
    /\ [][\A c \in Slots :
              (calls[c].pc = "fetching" /\ calls'[c] # calls[c])
              => AnswerStep(calls[c], calls'[c])]_vars

\* A call has returned its result while the call of the last slot still
\* waits for the transport.
C23_Witness ==
    /\ calls[1].pc = "done"
    /\ Sent(calls[1])
    /\ calls[1].outcome.kind = "returned"
    /\ calls[MaxInFlight].pc = "fetching"
    /\ calls[MaxInFlight].fetches = 1

\* What a call was given by its caller, and the URL object built for it.
CallerObjects(call) ==
    <<call.path, call.pathParams, call.searchParams, call.built>>

\* C24: createUrl and apiRequest change nothing but their own per-call
\* objects: no step changes the client's configuration or headers, and while
\* an operation runs, its template, pathParams, searchParams and URL object
\* stay as they were, and its payload stays as it was sent.
C24_Frame ==
    [][/\ client.state = "ready"
          => /\ client'.props = client.props
             /\ client'.propsFrozen = client.propsFrozen
             /\ client'.headers = client.headers
             /\ client'.headersFrozen = client.headersFrozen
       /\ \A c \in Slots :
              (calls[c].pc # "idle" /\ calls'[c].pc # "idle")
              => /\ CallerObjects(calls'[c]) = CallerObjects(calls[c])
                 /\ Sent(calls[c]) => calls'[c].payload = calls[c].payload]_vars

\* A request with a payload, built from a template with query parameters,
\* has ended in an error; the client is as it was constructed.
C24_Witness ==
    \E c \in Slots :
        /\ calls[c].pc = "done"
        /\ Sent(calls[c])
        /\ calls[c].payload # Undefined
        /\ calls[c].payload # Null
        /\ calls[c].outcome.kind = "Error"
        /\ calls[c].built.kind = "url"
        /\ client = NewClient(Str("k-1234"))

\* C25: a RequiredError comes from createUrl alone, before any network call
\* of the operation, and carries the field; the request-failed error is a
\* plain Error that comes from apiRequest alone, after a response with a
\* status outside [200, 300) was received.
C25_ErrorKindsDisjoint ==
    \A c \in Slots :
        /\ calls[c].outcome.kind = "RequiredError"
           => /\ calls[c].steps = <<"createUrl">>
              /\ calls[c].fetches = 0
              /\ ~Answered(calls[c])
              /\ calls[c].built.kind = "RequiredError"
              /\ Contains(calls[c].path, "{" \o calls[c].built.field \o "}")
        /\ calls[c].built.kind = "RequiredError"
           => calls[c].outcome.kind = "RequiredError"
        /\ calls[c].outcome.kind = "Error"
           => /\ calls[c].steps = <<"createUrl", "apiRequest">>
              /\ calls[c].fetches = 1
              /\ Answered(calls[c])
              /\ ~InOkRange(calls[c].response.status)
              /\ calls[c].built.kind = "url"
              /\ MatchAt(calls[c].outcome.message, "Status: ", 1)

\* A request answered with status 300 has ended in the request-failed error.
C25_Witness ==
    \E c \in Slots :
        /\ calls[c].pc = "done"
        /\ calls[c].response.status = 300
        /\ calls[c].outcome.kind = "Error"
        /\ calls[c].outcome.message = "Status: 300, Text: '{}'"

\* C26: the body of a response is read once, by the decoder the status
\* alone selects: JSON for a status in [200, 300), text otherwise; no body is
\* read before the response and its status are there, and a response with a
\* status in [200, 300) never ends in the request-failed error.
C26_OneDecoderByStatus ==
    \A c \in Slots :
        /\ ~Answered(calls[c]) => calls[c].decodes = <<>>
        /\ Answered(calls[c])
           => calls[c].decodes =
                  (IF InOkRange(calls[c].response.status)
                   THEN <<"json">> ELSE <<"text">>)
        /\ calls[c].pc = "json" <=> (Answered(calls[c]) /\ calls[c].pc # "done"
                                     /\ InOkRange(calls[c].response.status))
        /\ calls[c].pc = "text" <=> (Answered(calls[c]) /\ calls[c].pc # "done"
                                     /\ ~InOkRange(calls[c].response.status))
        /\ (Answered(calls[c]) /\ InOkRange(calls[c].response.status))
           => calls[c].outcome.kind # "Error"

\* A response with status 204 and an empty body was read as JSON, once, and
\* the call ended in the decoder's error, not in the request-failed error.
C26_Witness ==
    \E c \in Slots :
        /\ calls[c].pc = "done"
        /\ calls[c].response = Resp(204, "")
        /\ calls[c].decodes = <<"json">>
        /\ calls[c].outcome.kind = "SyntaxError"

====
